---- MODULE Spec2Model ----
(***************************************************************************)
(* parseit-rs: decoding of fixed-width records.                            *)
(*                                                                         *)
(* A Rust String is modelled as the sequence of its UTF-8 code units, one  *)
(* token per unit: an ASCII character is the one-character string holding  *)
(* it, and the Windows-1252 byte 0xF1 decodes to the two units "C3" "B1".  *)
(* str::len counts units, a slice s[a..b] takes units a+1..b and panics    *)
(* when a or b falls inside a character.                                   *)
(***************************************************************************)
EXTENDS Integers, Sequences, FiniteSets, TLC

VARIABLES
    pc,                         \* position of the running function
    file,                       \* the bytes of the data file (NoFile: it cannot be opened)
    formats,                    \* schema.formats: format name -> field definitions
    fields,                     \* the field definitions parse_to_records is given
    format_numeric,             \* --format-numeric
    dont_use_tables,            \* --dont-use-tables
    long_format,                \* --long-format
    segments,                   \* reader.split(b'\n'): the segments not yet yielded
    line,                       \* the decoded line being processed
    start_pos,                  \* the cursor of parse_to_records
    field_idx,                  \* position of the iterator fields.iter()
    record_parts,               \* the record being built
    records,                    \* the records built so far
    result,                     \* what parse_to_records returns
    data_len,                   \* deduce_format: the measured length
    pending,                    \* deduce_format: the names formats.iter() has not yielded yet
    deduced,                    \* deduce_format: its return value
    runs,                       \* return values of the completed runs of deduce_format
    raw_value,                  \* format_field_value: argument
    field_type,                 \* format_field_value: argument
    decimal_places,             \* format_field_value: argument
    number_string_for_decimal,  \* format_field_value: local
    final_decimal_places,       \* format_field_value: local
    number,                     \* format_field_value: local (a Decimal)
    ret                         \* format_field_value: return value

vars == <<pc, file, formats, fields, format_numeric, dont_use_tables, long_format,
          segments, line, start_pos, field_idx, record_parts, records, result,
          data_len, pending, deduced, runs,
          raw_value, field_type, decimal_places, number_string_for_decimal,
          final_decimal_places, number, ret>>

parseVars == <<fields, dont_use_tables, long_format, segments, line, start_pos,
               field_idx, record_parts, records, result>>

deduceVars == <<formats, data_len, pending, deduced, runs>>

formatVars == <<raw_value, field_type, decimal_places, number_string_for_decimal,
                final_decimal_places, number, ret>>

----------------------------------------------------------------------------
(* Bounds *)

\* longest data file, in bytes
MaxFileLen == 3

\* longest raw value handed to format_field_value, beside the documented examples
MaxRawLen == 3

\* largest decimal_places enumerated below the Decimal type's maximum scale
MaxDecimals == 3

----------------------------------------------------------------------------
(* Strings *)

Digits == {"0", "1", "2", "3", "4", "5", "6", "7", "8", "9"}

\* char::is_whitespace, on the characters the model uses
Whitespace == {" ", "\t", "\n", "\r"}

\* UTF-8 continuation units: an index in front of one is not a char boundary
Continuation == {"B1"}

\* encoding_rs WINDOWS_1252.decode of one byte, as UTF-8 units
DecodeByte(b) ==
    IF b = "F1" THEN <<"C3", "B1">> ELSE <<b>>

RECURSIVE Decode(_)
Decode(buffer) ==
    IF buffer = <<>> THEN <<>>
    ELSE DecodeByte(Head(buffer)) \o Decode(Tail(buffer))

\* str::is_char_boundary(i), i counted from 0
IsCharBoundary(s, i) ==
    \/ i = 0
    \/ i = Len(s)
    \/ i < Len(s) /\ s[i + 1] \notin Continuation

\* mutant of Slice: the slice is taken from the start of the string
SliceFromStart(s, a, b) == SubSeq(s, 1, b - a)

\* &s[a..b] for a <= b <= len, both on char boundaries
Slice(s, a, b) == SubSeq(s, a + 1, b)

RECURSIVE TrimStart(_)
TrimStart(s) ==
    IF s # <<>> /\ Head(s) \in Whitespace THEN TrimStart(Tail(s)) ELSE s

RECURSIVE TrimEnd(_)
TrimEnd(s) ==
    IF s # <<>> /\ s[Len(s)] \in Whitespace THEN TrimEnd(SubSeq(s, 1, Len(s) - 1)) ELSE s

Trim(s) == TrimEnd(TrimStart(s))

RECURSIVE TrimStartMatches(_, _)
TrimStartMatches(s, c) ==
    IF s # <<>> /\ Head(s) = c THEN TrimStartMatches(Tail(s), c) ELSE s

\* str::replace(c, "")
RemoveChar(s, c) == SelectSeq(s, LAMBDA x : x # c)

\* str::replace(a, b) for single characters
ReplaceChar(s, a, b) == [i \in 1..Len(s) |-> IF s[i] = a THEN b ELSE s[i]]

\* "c".repeat(n)
Repeat(c, n) == [i \in 1..n |-> c]

Contains(s, c) == \E i \in 1..Len(s) : s[i] = c

Reverse(s) == [i \in 1..Len(s) |-> s[Len(s) + 1 - i]]

\* str::to_lowercase on the type names the model uses
ToLowercase(t) ==
    CASE t = "ZAMOUNT" -> "zamount"
      [] t = "Amount" -> "amount"
      [] OTHER -> t

----------------------------------------------------------------------------
(* rust_decimal::Decimal: a sign, a 96-bit mantissa and a scale.  The mantissa *)
(* is kept as its decimal digits without leading zeros (<<>> is zero).         *)

\* rust_decimal's maximum scale, which set_scale enforces
MAX_SCALE == 28

\* the largest mantissa, 2^96 - 1
MaxMantissa ==
    <<"7", "9", "2", "2", "8", "1", "6", "2", "5", "1", "4", "2", "6", "4", "3",
      "3", "7", "5", "9", "3", "5", "4", "3", "9", "5", "0", "3", "3", "5">>

DigitVal(c) ==
    CASE c = "0" -> 0 [] c = "1" -> 1 [] c = "2" -> 2 [] c = "3" -> 3 [] c = "4" -> 4
      [] c = "5" -> 5 [] c = "6" -> 6 [] c = "7" -> 7 [] c = "8" -> 8 [] c = "9" -> 9

DigitChar(n) ==
    CASE n = 0 -> "0" [] n = 1 -> "1" [] n = 2 -> "2" [] n = 3 -> "3" [] n = 4 -> "4"
      [] n = 5 -> "5" [] n = 6 -> "6" [] n = 7 -> "7" [] n = 8 -> "8" [] n = 9 -> "9"

\* a <= b for two mantissas
RECURSIVE MantissaLeq(_, _)
MantissaLeq(a, b) ==
    IF Len(a) # Len(b) THEN Len(a) < Len(b)
    ELSE IF a = <<>> THEN TRUE
    ELSE IF Head(a) # Head(b) THEN DigitVal(Head(a)) < DigitVal(Head(b))
    ELSE MantissaLeq(Tail(a), Tail(b))

\* mantissa * 10 + digit
MantissaPush(m, c) == IF m = <<>> /\ c = "0" THEN <<>> ELSE Append(m, c)

\* mantissa + 1
RECURSIVE MantissaIncr(_)
MantissaIncr(m) ==
    IF m = <<>> THEN <<"1">>
    ELSE IF m[Len(m)] = "9" THEN Append(MantissaIncr(SubSeq(m, 1, Len(m) - 1)), "0")
    ELSE Append(SubSeq(m, 1, Len(m) - 1), DigitChar(DigitVal(m[Len(m)]) + 1))

\* the fraction digits of the text, taken while the scale and the mantissa have
\* room; the first digit that does not fit rounds the value half up
RECURSIVE ParseFraction(_, _, _)
ParseFraction(m, scale, frac) ==
    IF frac = <<>> THEN [mant |-> m, scale |-> scale]
    ELSE IF scale < MAX_SCALE /\ MantissaLeq(MantissaPush(m, Head(frac)), MaxMantissa)
         THEN ParseFraction(MantissaPush(m, Head(frac)), scale + 1, Tail(frac))
    ELSE [mant |-> IF DigitVal(Head(frac)) >= 5 THEN MantissaIncr(m) ELSE m,
          scale |-> scale]

\* the parts of s between the occurrences of c (str::split)
RECURSIVE Split(_, _)
Split(s, c) ==
    IF ~Contains(s, c) THEN <<s>>
    ELSE LET i == CHOOSE k \in 1..Len(s) : s[k] = c /\ \A j \in 1..(k - 1) : s[j] # c
         IN  <<SubSeq(s, 1, i - 1)>> \o Split(SubSeq(s, i + 1, Len(s)), c)

DecimalErr == [ok |-> FALSE, neg |-> FALSE, mant |-> <<>>, scale |-> 0]

\* Decimal::from_str: an optional sign, then digits with at most one point and
\* at least one digit; the scale is the number of fraction digits
DecimalFromStr(s) ==
    IF s = <<>> THEN DecimalErr
    ELSE
      LET signed == s[1] \in {"-", "+"}
          body == IF signed THEN Tail(s) ELSE s
          parts == Split(body, ".")
          int == TrimStartMatches(parts[1], "0")
          frac == IF Len(parts) > 1 THEN parts[2] ELSE <<>>
      IN  IF \/ \E i \in 1..Len(body) : body[i] \notin Digits \cup {"."}
             \/ Len(parts) > 2
             \/ \A i \in 1..Len(body) : body[i] \notin Digits
             \/ ~MantissaLeq(int, MaxMantissa)
          THEN DecimalErr
          ELSE LET p == ParseFraction(int, 0, frac)
               IN  [ok |-> TRUE, neg |-> s[1] = "-" /\ p.mant # <<>>,
                    mant |-> p.mant, scale |-> p.scale]

\* Decimal::set_scale: the scale is replaced, the mantissa is kept as it is
DecimalSetScale(d, scale) ==
    IF scale > MAX_SCALE THEN DecimalErr
    ELSE [ok |-> TRUE, neg |-> d.neg, mant |-> d.mant, scale |-> scale]

\* Decimal::to_string
DecimalToString(d) ==
    LET padded == IF Len(d.mant) <= d.scale
                  THEN Repeat("0", d.scale + 1 - Len(d.mant)) \o d.mant
                  ELSE d.mant
        n == Len(padded)
        rep == IF d.scale = 0 THEN padded
               ELSE SubSeq(padded, 1, n - d.scale) \o <<".">>
                    \o SubSeq(padded, n - d.scale + 1, n)
    IN  (IF d.neg THEN <<"-">> ELSE <<>>) \o rep

----------------------------------------------------------------------------
(* format_field_value *)

Returned(v) == [tag |-> "ok", val |-> v]

Panicked == [tag |-> "panic", val |-> <<>>]

\* mutant of BlankValue: as many zeros as decimal_places asks for
BlankValueScaled(d) == IF d > 0 THEN <<"0", ",">> \o Repeat("0", d) ELSE <<"0">>

\* the early return on a blank value
BlankValue(d) == IF d > 0 THEN <<"0", ",", "0", "0">> ELSE <<"0">>

\* phase 1, "zamount": the text handed to Decimal::from_str, or a panic of the
\* slice integer_part[0..index_of_dot]
ZamountString(num_str, d) ==
    LET len == Len(num_str)
        integer_part == IF len < d THEN Repeat("0", d - len + 1) \o num_str ELSE num_str
        len2 == Len(integer_part)
        index_of_dot == IF len2 >= d THEN len2 - d ELSE 0
        int_part == Slice(integer_part, 0, index_of_dot)
        dec_part == Slice(integer_part, index_of_dot, len2)
        stripped == TrimStartMatches(int_part, "0")
        final_int_part == IF stripped = <<>> THEN <<"0">> ELSE stripped
    IN  IF ~IsCharBoundary(integer_part, index_of_dot) THEN Panicked
        ELSE Returned(final_int_part \o <<".">> \o dec_part)

\* phase 1, "amount" | "numeric": the text handed to Decimal::from_str
AmountString(raw_trimmed, d) ==
    LET s == ReplaceChar(RemoveChar(raw_trimmed, "."), ",", ".")
    IN  IF ~Contains(s, ".") /\ d > 0 THEN s \o <<".">> \o Repeat("0", d) ELSE s

\* phase 1, "amount" | "numeric": final_decimal_places
AmountScale(field_type_lower, d) ==
    IF field_type_lower = "amount" /\ d = 0 THEN 2 ELSE d

\* the loop that writes the integer part from its last character to its first,
\* a point in front of every fourth digit, the sign skipped
RECURSIVE GroupLoop(_, _, _)
GroupLoop(rev, count, final_integer) ==
    IF rev = <<>> THEN final_integer
    ELSE IF Head(rev) = "-" THEN GroupLoop(Tail(rev), count, final_integer)
    ELSE GroupLoop(Tail(rev), count + 1,
                   (IF count > 0 /\ count % 3 = 0
                    THEN Append(final_integer, ".") ELSE final_integer)
                   \o <<Head(rev)>>)

\* mutant of RenderPlain: the decimal point is left as it is
RenderPlainPoint(n) == DecimalToString(n)

\* the return value without grouping
RenderPlain(n) == ReplaceChar(DecimalToString(n), ".", ",")

\* the return value with grouping
RenderGrouped(n) ==
    LET parts == Split(DecimalToString(n), ".")
        integer_part == parts[1]
        decimal_part == IF Len(parts) > 1 THEN parts[2] ELSE <<"0", "0">>
        is_negative == Contains(integer_part, "-")
        formatted == Reverse(GroupLoop(Reverse(integer_part), 0, <<>>))
    IN  (IF is_negative THEN <<"-">> ELSE <<>>) \o formatted \o <<",">> \o decimal_part

\* phase 2: parse, set the scale, render
FormatNumber(raw, number_string, scale, fmt) ==
    LET parsed == DecimalFromStr(number_string)
        scaled == DecimalSetScale(parsed, scale)
    IN  IF ~parsed.ok THEN Returned(raw)
        ELSE IF ~scaled.ok THEN Panicked
        ELSE IF fmt THEN Returned(RenderGrouped(scaled))
        ELSE Returned(RenderPlain(scaled))

\* format_field_value as one call: what it returns, or that it panics
format_field_value(raw, ftype, fmt, d) ==
    LET raw_trimmed == Trim(raw)
        field_type_lower == ToLowercase(ftype)
    IN  IF raw_trimmed = <<>> THEN Returned(BlankValue(d))
        ELSE IF field_type_lower = "zamount"
             THEN LET z == ZamountString(raw_trimmed, d)
                  IN  IF z.tag = "panic" THEN Panicked
                      ELSE FormatNumber(raw, z.val, d, fmt)
        ELSE IF field_type_lower \in {"amount", "numeric"}
             THEN FormatNumber(raw, AmountString(raw_trimmed, d),
                               AmountScale(field_type_lower, d), fmt)
        ELSE Returned(raw_trimmed)

----------------------------------------------------------------------------
(* Inputs of format_field_value *)

FormatAlphabet == {"0", "1", ",", ".", "-", " "}

RECURSIVE SeqsUpTo(_, _)
SeqsUpTo(S, n) ==
    IF n = 0 THEN {<<>>}
    ELSE LET shorter == SeqsUpTo(S, n - 1)
         IN  shorter \cup {Append(s, c) : s \in {t \in shorter : Len(t) = n - 1}, c \in S}

\* the values of the documentation and of the specification's examples, and one
\* value with a character outside ASCII
RawExamples ==
    { <<"0", "0", "0", "1", "2", "3", "4", "5">>,
      <<"5">>,
      <<"1", "2", "3", "4", "5", "6", "7", ",", "8", "9">>,
      <<"-", "1", "2", "3", "4", ",", "5">>,
      <<"1", "2", "3", "4">>,
      <<"1", "2", ",", "5">>,
      <<"C3", "B1">> }

RawValues == SeqsUpTo(FormatAlphabet, MaxRawLen) \cup RawExamples

FieldTypes == {"zamount", "amount", "numeric", "string", "Amount"}

DecimalPlaces == 0..MaxDecimals \cup {MAX_SCALE + 1}

NoDecimal == [ok |-> FALSE, neg |-> FALSE, mant |-> <<>>, scale |-> 0]

\* a data file that cannot be opened
NoFile == [exists |-> FALSE, bytes |-> <<>>]

\* no value yet
Idle == [tag |-> "idle", val |-> <<>>]

\* deduce_format has not returned
NotDeduced == [tag |-> "idle", name |-> "", len |-> 0]

ParseIdle ==
    /\ file = NoFile
    /\ fields = <<>>
    /\ dont_use_tables = FALSE
    /\ long_format = FALSE
    /\ segments = <<>>
    /\ line = <<>>
    /\ start_pos = 0
    /\ field_idx = 0
    /\ record_parts = <<>>
    /\ records = <<>>
    /\ result = Idle

DeduceIdle ==
    /\ formats = <<>>
    /\ data_len = 0
    /\ pending = {}
    /\ deduced = NotDeduced
    /\ runs = <<>>

FormatLocalsIdle ==
    /\ number_string_for_decimal = <<>>
    /\ final_decimal_places = 0
    /\ number = NoDecimal
    /\ ret = Idle

FormatIdle ==
    /\ raw_value = <<>>
    /\ field_type = "string"
    /\ decimal_places = 0
    /\ FormatLocalsIdle

----------------------------------------------------------------------------
(* format_field_value, step by step *)

InitFormat ==
    /\ pc = "fmt_entry"
    /\ raw_value \in RawValues
    /\ field_type \in FieldTypes
    /\ format_numeric \in BOOLEAN
    /\ decimal_places \in DecimalPlaces
    /\ FormatLocalsIdle
    /\ ParseIdle
    /\ DeduceIdle

FmtUnchanged ==
    UNCHANGED <<file, format_numeric, parseVars, deduceVars,
                raw_value, field_type, decimal_places>>

\* lines 39-43: a blank value returns at once
FmtBlank ==
    /\ pc = "fmt_entry"
    /\ Trim(raw_value) = <<>>
    /\ ret' = Returned(BlankValue(decimal_places))
    /\ pc' = "fmt_ret"
    /\ UNCHANGED <<number_string_for_decimal, final_decimal_places, number>>
    /\ FmtUnchanged

\* lines 52-86
FmtZamount ==
    /\ pc = "fmt_entry"
    /\ Trim(raw_value) # <<>>
    /\ ToLowercase(field_type) = "zamount"
    /\ LET z == ZamountString(Trim(raw_value), decimal_places)
       IN  IF z.tag = "panic"
           THEN /\ pc' = "fmt_panic"
                /\ ret' = Panicked
                /\ UNCHANGED number_string_for_decimal
           ELSE /\ pc' = "fmt_parse"
                /\ number_string_for_decimal' = z.val
                /\ UNCHANGED ret
    /\ final_decimal_places' = decimal_places
    /\ UNCHANGED number
    /\ FmtUnchanged

\* lines 88-105
FmtAmountNumeric ==
    /\ pc = "fmt_entry"
    /\ Trim(raw_value) # <<>>
    /\ ToLowercase(field_type) \in {"amount", "numeric"}
    /\ number_string_for_decimal' = AmountString(Trim(raw_value), decimal_places)
    /\ final_decimal_places' = AmountScale(ToLowercase(field_type), decimal_places)
    /\ pc' = "fmt_parse"
    /\ UNCHANGED <<number, ret>>
    /\ FmtUnchanged

\* line 106: any other type returns the trimmed value
FmtOther ==
    /\ pc = "fmt_entry"
    /\ Trim(raw_value) # <<>>
    /\ ToLowercase(field_type) \notin {"zamount", "amount", "numeric"}
    /\ ret' = Returned(Trim(raw_value))
    /\ pc' = "fmt_ret"
    /\ UNCHANGED <<number_string_for_decimal, final_decimal_places, number>>
    /\ FmtUnchanged

\* mutant of FmtParseErr: the trimmed value is returned
FmtParseErrTrimmed ==
    /\ pc = "fmt_parse"
    /\ ~DecimalFromStr(number_string_for_decimal).ok
    /\ ret' = Returned(Trim(raw_value))
    /\ pc' = "fmt_ret"
    /\ UNCHANGED <<number_string_for_decimal, final_decimal_places, number>>
    /\ FmtUnchanged

\* lines 110-113: the text does not parse, the raw value is returned
FmtParseErr ==
    /\ pc = "fmt_parse"
    /\ ~DecimalFromStr(number_string_for_decimal).ok
    /\ ret' = Returned(raw_value)
    /\ pc' = "fmt_ret"
    /\ UNCHANGED <<number_string_for_decimal, final_decimal_places, number>>
    /\ FmtUnchanged

\* lines 110-116: the text parses and the scale is set
FmtSetScale ==
    /\ pc = "fmt_parse"
    /\ DecimalFromStr(number_string_for_decimal).ok
    /\ final_decimal_places <= MAX_SCALE
    /\ number' = DecimalSetScale(DecimalFromStr(number_string_for_decimal),
                                 final_decimal_places)
    /\ pc' = "fmt_render"
    /\ UNCHANGED <<number_string_for_decimal, final_decimal_places, ret>>
    /\ FmtUnchanged

\* line 116: set_scale fails and expect panics
FmtSetScalePanic ==
    /\ pc = "fmt_parse"
    /\ DecimalFromStr(number_string_for_decimal).ok
    /\ final_decimal_places > MAX_SCALE
    /\ ret' = Panicked
    /\ pc' = "fmt_panic"
    /\ UNCHANGED <<number_string_for_decimal, final_decimal_places, number>>
    /\ FmtUnchanged

\* lines 118-121
FmtPlain ==
    /\ pc = "fmt_render"
    /\ ~format_numeric
    /\ ret' = Returned(RenderPlain(number))
    /\ pc' = "fmt_ret"
    /\ UNCHANGED <<number_string_for_decimal, final_decimal_places, number>>
    /\ FmtUnchanged

\* lines 125-156
FmtGrouped ==
    /\ pc = "fmt_render"
    /\ format_numeric
    /\ ret' = Returned(RenderGrouped(number))
    /\ pc' = "fmt_ret"
    /\ UNCHANGED <<number_string_for_decimal, final_decimal_places, number>>
    /\ FmtUnchanged

NextFormat ==
    \/ FmtBlank
    \/ FmtZamount
    \/ FmtAmountNumeric
    \/ FmtOther
    \/ FmtParseErr
    \/ FmtSetScale
    \/ FmtSetScalePanic
    \/ FmtPlain
    \/ FmtGrouped

SpecFormat == InitFormat /\ [][NextFormat]_vars

----------------------------------------------------------------------------
(* Inputs of parse_to_records and deduce_format *)

FileAlphabet == {"1", " ", "F1", "\n"}

Files == {[exists |-> TRUE, bytes |-> b] : b \in SeqsUpTo(FileAlphabet, MaxFileLen)}

\* schema.tables
Tables == "T1" :> (<<"1">> :> <<"u", "n", "o">>)

FieldWidths == {1, 2}

FieldCounts == 0..2

\* tipo and param1 of a field definition
FieldKinds ==
    { <<"string", "">>, <<"table", "T1">>, <<"table", "TX">>,
      <<"zamount", "1">>, <<"amount", "">> }

\* usize::to_string
RECURSIVE ToDecimalString(_)
ToDecimalString(n) ==
    IF n < 10 THEN <<DigitChar(n)>>
    ELSE Append(ToDecimalString(n \div 10), DigitChar(n % 10))

FieldName(i) == <<"f">> \o ToDecimalString(i)

\* the field lists of n fields, the names unique within a list
FieldLists(n) ==
    { [i \in 1..n |-> [nombre |-> FieldName(i), len |-> w[i],
                       tipo |-> k[i][1], param1 |-> k[i][2]]] :
        w \in [1..n -> FieldWidths], k \in [1..n -> FieldKinds] }

AllFieldLists == UNION {FieldLists(n) : n \in FieldCounts}

\* str::parse::<usize> on the values of param1 the model uses: Some(n) or None
ParseUsize(p) ==
    CASE p = "0" -> [some |-> TRUE, n |-> 0]
      [] p = "1" -> [some |-> TRUE, n |-> 1]
      [] p = "2" -> [some |-> TRUE, n |-> 2]
      [] p = "29" -> [some |-> TRUE, n |-> 29]
      [] OTHER -> [some |-> FALSE, n |-> 0]

\* Option::unwrap_or
UnwrapOr(o, default) == IF o.some THEN o.n ELSE default

\* BufRead::split(b'\n'): the bytes between the newlines; an empty rest after the
\* last newline is no segment
SplitLines(bytes) ==
    LET parts == Split(bytes, "\n")
    IN  IF parts[Len(parts)] = <<>> THEN SubSeq(parts, 1, Len(parts) - 1) ELSE parts

----------------------------------------------------------------------------
(* parse_to_records *)

\* line 194
Headers(fs) == [i \in 1..Len(fs) |-> fs[i].nombre]

\* mutant of LookupValue: the flag that suppresses the lookups is not read
LookupIgnoringSuppress(raw, field, suppress) ==
    IF /\ field.tipo = "table"
       /\ field.param1 \in DOMAIN Tables
       /\ raw \in DOMAIN Tables[field.param1]
    THEN raw \o <<" ", "-", " ">> \o Tables[field.param1][raw]
    ELSE raw

\* lines 223-232: the value after the table lookup
LookupValue(raw, field, suppress) ==
    IF /\ field.tipo = "table"
       /\ ~suppress
       /\ field.param1 \in DOMAIN Tables
       /\ raw \in DOMAIN Tables[field.param1]
    THEN raw \o <<" ", "-", " ">> \o Tables[field.param1][raw]
    ELSE raw

\* lines 235-241: the call of format_field_value, for the amount kinds only
FieldValue(value, field, fmt) ==
    IF field.tipo = "zamount" \/ field.tipo = "amount"
    THEN format_field_value(value, field.tipo, fmt, UnwrapOr(ParseUsize(field.param1), 2))
    ELSE Returned(value)

\* mutant of FlattenRecord: the row number is the index counted from 0
FlattenRecordZeroBased(row_index, record, headers) ==
    [col_index \in 1..Len(record) |->
        << ToDecimalString(row_index - 1),
           IF col_index <= Len(headers) THEN headers[col_index]
           ELSE <<"c", "o", "l", "_">> \o ToDecimalString(col_index),
           record[col_index] >>]

\* lines 258-264: the rows of one record in long format
FlattenRecord(row_index, record, headers) ==
    [col_index \in 1..Len(record) |->
        << ToDecimalString(row_index),
           IF col_index <= Len(headers) THEN headers[col_index]
           ELSE <<"c", "o", "l", "_">> \o ToDecimalString(col_index),
           record[col_index] >>]

RECURSIVE Flatten(_, _, _)
Flatten(recs, row_index, headers) ==
    IF row_index > Len(recs) THEN <<>>
    ELSE FlattenRecord(row_index, recs[row_index], headers)
         \o Flatten(recs, row_index + 1, headers)

FlatHeaders ==
    << <<"#">>, <<"C", "o", "l", "u", "m", "n", "a">>, <<"V", "a", "l", "o", "r">> >>

Init ==
    /\ pc = "parse_entry"
    /\ file \in Files \cup {NoFile}
    /\ fields \in AllFieldLists
    /\ format_numeric \in BOOLEAN
    /\ dont_use_tables \in BOOLEAN
    /\ long_format \in BOOLEAN
    /\ segments = <<>>
    /\ line = <<>>
    /\ start_pos = 0
    /\ field_idx = 0
    /\ record_parts = <<>>
    /\ records = <<>>
    /\ result = Idle
    /\ DeduceIdle
    /\ FormatIdle

ParseUnchanged ==
    UNCHANGED <<file, fields, format_numeric, dont_use_tables, long_format,
                deduceVars, formatVars>>

\* line 190: the file cannot be opened
ParseOpenErr ==
    /\ pc = "parse_entry"
    /\ ~file.exists
    /\ result' = [tag |-> "err", val |-> <<>>]
    /\ pc' = "parse_err"
    /\ UNCHANGED <<segments, line, start_pos, field_idx, record_parts, records>>
    /\ ParseUnchanged

\* lines 190-198
ParseOpen ==
    /\ pc = "parse_entry"
    /\ file.exists
    /\ segments' = SplitLines(file.bytes)
    /\ records' = <<>>
    /\ pc' = "parse_lines"
    /\ UNCHANGED <<line, start_pos, field_idx, record_parts, result>>
    /\ ParseUnchanged

\* lines 198-206: the next segment is decoded
ReadLine ==
    /\ pc = "parse_lines"
    /\ segments # <<>>
    /\ line' = Decode(Head(segments))
    /\ segments' = Tail(segments)
    /\ start_pos' = 0
    /\ record_parts' = <<>>
    /\ field_idx' = 1
    /\ pc' = "parse_fields"
    /\ UNCHANGED <<records, result>>
    /\ ParseUnchanged

\* mutant of FieldTruncated: the loop is left without the empty entry
FieldTruncatedNoEntry ==
    /\ pc = "parse_fields"
    /\ field_idx <= Len(fields)
    /\ start_pos + fields[field_idx].len > Len(line)
    /\ pc' = "parse_push"
    /\ UNCHANGED <<segments, line, start_pos, field_idx, record_parts, records, result>>
    /\ ParseUnchanged

\* mutant of FieldTruncated: an empty entry is pushed for every field of the format
FieldTruncatedPadded ==
    /\ pc = "parse_fields"
    /\ field_idx <= Len(fields)
    /\ start_pos + fields[field_idx].len > Len(line)
    /\ record_parts' = record_parts \o [k \in 1..Len(fields) |-> <<>>]
    /\ pc' = "parse_push"
    /\ UNCHANGED <<segments, line, start_pos, field_idx, records, result>>
    /\ ParseUnchanged

\* lines 209-217: the field does not fit, an empty entry is pushed and the loop left
FieldTruncated ==
    /\ pc = "parse_fields"
    /\ field_idx <= Len(fields)
    /\ start_pos + fields[field_idx].len > Len(line)
    /\ record_parts' = Append(record_parts, <<>>)
    /\ pc' = "parse_push"
    /\ UNCHANGED <<segments, line, start_pos, field_idx, records, result>>
    /\ ParseUnchanged

\* line 219: the slice starts or ends inside a character
FieldSlicePanic ==
    /\ pc = "parse_fields"
    /\ field_idx <= Len(fields)
    /\ LET end_pos == start_pos + fields[field_idx].len
       IN  /\ end_pos <= Len(line)
           /\ ~(IsCharBoundary(line, start_pos) /\ IsCharBoundary(line, end_pos))
    /\ result' = Panicked
    /\ pc' = "parse_panic"
    /\ UNCHANGED <<segments, line, start_pos, field_idx, record_parts, records>>
    /\ ParseUnchanged

\* lines 209-246: one field is sliced, trimmed, looked up and formatted
FieldDecoded ==
    /\ pc = "parse_fields"
    /\ field_idx <= Len(fields)
    /\ LET field == fields[field_idx]
           end_pos == start_pos + field.len
           raw == Trim(Slice(line, start_pos, end_pos))
           final_value == FieldValue(LookupValue(raw, field, dont_use_tables),
                                     field, format_numeric)
       IN  /\ end_pos <= Len(line)
           /\ IsCharBoundary(line, start_pos)
           /\ IsCharBoundary(line, end_pos)
           /\ IF final_value.tag = "panic"
              THEN /\ result' = Panicked
                   /\ pc' = "parse_panic"
                   /\ UNCHANGED <<record_parts, start_pos, field_idx>>
              ELSE /\ record_parts' = Append(record_parts, final_value.val)
                   /\ start_pos' = end_pos
                   /\ field_idx' = field_idx + 1
                   /\ UNCHANGED <<result, pc>>
    /\ UNCHANGED <<segments, line, records>>
    /\ ParseUnchanged

\* mutant of PushRecord: the record replaces the records built before it
PushRecordOverwrite ==
    /\ \/ pc = "parse_push"
       \/ pc = "parse_fields" /\ field_idx > Len(fields)
    /\ records' = <<record_parts>>
    /\ pc' = "parse_lines"
    /\ UNCHANGED <<segments, line, start_pos, field_idx, record_parts, result>>
    /\ ParseUnchanged

\* line 248
PushRecord ==
    /\ \/ pc = "parse_push"
       \/ pc = "parse_fields" /\ field_idx > Len(fields)
    /\ records' = Append(records, record_parts)
    /\ pc' = "parse_lines"
    /\ UNCHANGED <<segments, line, start_pos, field_idx, record_parts, result>>
    /\ ParseUnchanged

\* lines 254-267
ReturnLong ==
    /\ pc = "parse_lines"
    /\ segments = <<>>
    /\ long_format
    /\ result' = [tag |-> "ok",
                  val |-> <<FlatHeaders, Flatten(records, 1, Headers(fields))>>]
    /\ pc' = "parse_ret"
    /\ UNCHANGED <<segments, line, start_pos, field_idx, record_parts, records>>
    /\ ParseUnchanged

\* line 269
ReturnWide ==
    /\ pc = "parse_lines"
    /\ segments = <<>>
    /\ ~long_format
    /\ result' = [tag |-> "ok", val |-> <<Headers(fields), records>>]
    /\ pc' = "parse_ret"
    /\ UNCHANGED <<segments, line, start_pos, field_idx, record_parts, records>>
    /\ ParseUnchanged

Next ==
    \/ ParseOpenErr
    \/ ParseOpen
    \/ ReadLine
    \/ FieldTruncated
    \/ FieldSlicePanic
    \/ FieldDecoded
    \/ PushRecord
    \/ ReturnLong
    \/ ReturnWide

Spec == Init /\ [][Next]_vars

----------------------------------------------------------------------------
(* deduce_format *)

FormatNames == {"A", "B", "C"}

\* the schemas differ in the number of formats and in the widths of their fields
FormatNameSets == {{"A"}, {"A", "B"}, FormatNames}

PlainFieldLists ==
    {fs \in AllFieldLists : \A i \in 1..Len(fs) : fs[i].tipo = "string"}

Schemas == UNION {[names -> PlainFieldLists] : names \in FormatNameSets}

\* mutant of calculate_format_length: the fields are counted, their widths are not added
CountFields(fs) == Len(fs)

\* mutant of calculate_format_length: the width of the first field only
FirstFieldLength(fs) == IF fs = <<>> THEN 0 ELSE fs[1].len

\* config.rs, calculate_format_length
RECURSIVE calculate_format_length(_)
calculate_format_length(fs) ==
    IF fs = <<>> THEN 0 ELSE Head(fs).len + calculate_format_length(Tail(fs))

\* BufRead::read_until(b'\n'): the bytes up to the first newline, the newline
\* included, or all of them when there is none
ReadUntilNewline(bytes) ==
    IF Contains(bytes, "\n")
    THEN SubSeq(bytes, 1, CHOOSE k \in 1..Len(bytes) :
                             bytes[k] = "\n" /\ \A j \in 1..(k - 1) : bytes[j] # "\n")
    ELSE bytes

\* mutant of get_first_line_length: the line terminator is counted
FirstLineLengthUntrimmed(bytes) ==
    Len(Decode(ReadUntilNewline(bytes)))

\* io.rs, get_first_line_length on a file that opens
get_first_line_length(bytes) ==
    Len(TrimEnd(Decode(ReadUntilNewline(bytes))))

InitDeduce ==
    /\ pc = "deduce_entry"
    /\ file \in Files \cup {NoFile}
    /\ formats \in Schemas
    /\ data_len = 0
    /\ pending = {}
    /\ deduced = NotDeduced
    /\ runs = <<>>
    /\ format_numeric = FALSE
    /\ fields = <<>>
    /\ dont_use_tables = FALSE
    /\ long_format = FALSE
    /\ segments = <<>>
    /\ line = <<>>
    /\ start_pos = 0
    /\ field_idx = 0
    /\ record_parts = <<>>
    /\ records = <<>>
    /\ result = Idle
    /\ FormatIdle

DeduceUnchanged ==
    UNCHANGED <<file, formats, format_numeric, parseVars, formatVars>>

\* line 310: the file cannot be opened, the error is passed on
DeduceOpenErr ==
    /\ pc = "deduce_entry"
    /\ ~file.exists
    /\ deduced' = [tag |-> "io", name |-> "", len |-> 0]
    /\ pc' = "deduce_ret"
    /\ UNCHANGED <<data_len, pending, runs>>
    /\ DeduceUnchanged

\* line 310, and the start of formats.iter()
DeduceMeasure ==
    /\ pc = "deduce_entry"
    /\ file.exists
    /\ data_len' = get_first_line_length(file.bytes)
    /\ pending' = DOMAIN formats
    /\ pc' = "deduce_scan"
    /\ UNCHANGED <<deduced, runs>>
    /\ DeduceUnchanged

\* lines 312-317: the HashMap yields one of the formats it has not yielded yet,
\* in no order the program controls, and its length matches
DeduceMatch ==
    /\ pc = "deduce_scan"
    /\ \E name \in pending :
         /\ data_len = calculate_format_length(formats[name])
         /\ deduced' = [tag |-> "ok", name |-> name, len |-> data_len]
    /\ pc' = "deduce_ret"
    /\ UNCHANGED <<data_len, pending, runs>>
    /\ DeduceUnchanged

\* lines 312-318: the format yielded does not match
DeduceSkip ==
    /\ pc = "deduce_scan"
    /\ \E name \in pending :
         /\ data_len # calculate_format_length(formats[name])
         /\ pending' = pending \ {name}
    /\ UNCHANGED <<pc, data_len, deduced, runs>>
    /\ DeduceUnchanged

\* lines 320-323: every format was yielded, none matched
DeduceNoMatch ==
    /\ pc = "deduce_scan"
    /\ pending = {}
    /\ deduced' = [tag |-> "err", name |-> "", len |-> data_len]
    /\ pc' = "deduce_ret"
    /\ UNCHANGED <<data_len, pending, runs>>
    /\ DeduceUnchanged

\* the program is run once more on the same file and the same schema
DeduceAgain ==
    /\ pc = "deduce_ret"
    /\ Len(runs) < 1
    /\ runs' = Append(runs, deduced)
    /\ deduced' = NotDeduced
    /\ data_len' = 0
    /\ pending' = {}
    /\ pc' = "deduce_entry"
    /\ DeduceUnchanged

NextDeduce ==
    \/ DeduceOpenErr
    \/ DeduceMeasure
    \/ DeduceMatch
    \/ DeduceSkip
    \/ DeduceNoMatch
    \/ DeduceAgain

SpecDeduce == InitDeduce /\ [][NextDeduce]_vars

----------------------------------------------------------------------------
(* main without a format name: the format is deduced, then the file decoded *)

\* formats of string and zamount fields
MainFieldLists ==
    {fs \in AllFieldLists : \A i \in 1..Len(fs) : fs[i].tipo \in {"string", "zamount"}}

MainSchemas == UNION {[names -> MainFieldLists] : names \in {{"A"}, {"A", "B"}}}

InitMain ==
    /\ pc = "deduce_entry"
    /\ file \in Files \cup {NoFile}
    /\ formats \in MainSchemas
    /\ data_len = 0
    /\ pending = {}
    /\ deduced = NotDeduced
    /\ runs = <<>>
    /\ format_numeric = FALSE
    /\ fields = <<>>
    /\ dont_use_tables = FALSE
    /\ long_format \in BOOLEAN
    /\ segments = <<>>
    /\ line = <<>>
    /\ start_pos = 0
    /\ field_idx = 0
    /\ record_parts = <<>>
    /\ records = <<>>
    /\ result = Idle
    /\ FormatIdle

\* main.rs lines 162-173: the deduced name selects the fields parse_to_records gets
MainSelectFormat ==
    /\ pc = "deduce_ret"
    /\ deduced.tag = "ok"
    /\ deduced.name \in DOMAIN formats
    /\ fields' = formats[deduced.name]
    /\ pc' = "parse_entry"
    /\ UNCHANGED <<file, formats, format_numeric, dont_use_tables, long_format,
                   segments, line, start_pos, field_idx, record_parts, records,
                   result, data_len, pending, deduced, runs, formatVars>>

NextMain ==
    \/ DeduceOpenErr
    \/ DeduceMeasure
    \/ DeduceMatch
    \/ DeduceSkip
    \/ DeduceNoMatch
    \/ MainSelectFormat
    \/ ParseOpen
    \/ ReadLine
    \/ FieldTruncated
    \/ FieldSlicePanic
    \/ FieldDecoded
    \/ PushRecord
    \/ ReturnLong
    \/ ReturnWide

SpecMain == InitMain /\ [][NextMain]_vars

----------------------------------------------------------------------------
(* What the claims speak of, stated without the operators of the model *)

\* s without the whitespace at its two ends
Trimmed(s) ==
    LET keep == {k \in 1..Len(s) : s[k] \notin Whitespace}
    IN  IF keep = {} THEN <<>>
        ELSE SubSeq(s, CHOOSE a \in keep : \A b \in keep : a <= b,
                       CHOOSE a \in keep : \A b \in keep : a >= b)

\* the sum of the widths of the fields before field i
RECURSIVE WidthsBefore(_, _)
WidthsBefore(fs, i) ==
    IF i <= 1 THEN 0 ELSE WidthsBefore(fs, i - 1) + fs[i - 1].len

\* field i lies within a line of n units
Fits(fs, i, n) == WidthsBefore(fs, i) + fs[i].len <= n

\* the units of ln that field i covers
FieldSlice(fs, i, ln) ==
    SubSeq(ln, WidthsBefore(fs, i) + 1, WidthsBefore(fs, i) + fs[i].len)

\* the first field that does not fit in a line of n units (Len(fs) + 1: all fit)
FirstUnfit(fs, n) ==
    IF \A i \in 1..Len(fs) : Fits(fs, i, n) THEN Len(fs) + 1
    ELSE CHOOSE k \in 1..Len(fs) :
           ~Fits(fs, k, n) /\ \A i \in 1..(k - 1) : Fits(fs, i, n)

\* the decoded line that record j was built from
LineOf(j) == Decode(SplitLines(file.bytes)[j])

\* the value field i of line ln decodes to
DecodedValue(i, ln) ==
    FieldValue(LookupValue(Trimmed(FieldSlice(fields, i, ln)), fields[i], dont_use_tables),
               fields[i], format_numeric).val

PlainKind(f) == f.tipo \notin {"table", "zamount", "amount"}

----------------------------------------------------------------------------
(* C1 *)

\* C1: while a record is built the cursor is the sum of the widths of the fields
\* already handled, and the entry of every field that fits in the line and is
\* neither a table nor an amount field is the slice line[c .. c+width], c the sum
\* of the widths of the fields before it, without its surrounding whitespace.
C1_SliceAtCursorTrimmed ==
    pc \in {"parse_fields", "parse_push"} =>
        /\ pc = "parse_fields" => start_pos = WidthsBefore(fields, field_idx)
        /\ \A i \in 1..Len(record_parts) :
             Fits(fields, i, Len(line)) /\ PlainKind(fields[i]) =>
                 record_parts[i] = Trimmed(FieldSlice(fields, i, line))

\* a second field, plain, whose slice begins behind the first field and lost
\* whitespace to the trim
C1_Witness ==
    /\ pc = "parse_fields"
    /\ Len(record_parts) = 2
    /\ PlainKind(fields[2])
    /\ start_pos = fields[1].len + fields[2].len
    /\ record_parts[2] # <<>>
    /\ record_parts[2] # FieldSlice(fields, 2, line)

----------------------------------------------------------------------------
(* C2 *)

\* C2: a record built from a line in which field k is the first that does not
\* fit holds the decoded values of the fields 1..k-1, then one empty string, and
\* nothing for the fields after k.
C2_TruncatedRecord ==
    \A j \in 1..Len(records) :
        LET k == FirstUnfit(fields, Len(LineOf(j)))
        IN  k <= Len(fields) =>
                /\ Len(records[j]) = k
                /\ records[j][k] = <<>>
                /\ \A i \in 1..(k - 1) : records[j][i] = DecodedValue(i, LineOf(j))

\* one line cut in its first field (nothing follows the empty entry) and one cut
\* in its second field (a decoded value precedes the empty entry)
C2_Witness ==
    /\ Len(fields) = 2
    /\ Len(records) = 2
    /\ FirstUnfit(fields, Len(LineOf(1))) = 1
    /\ records[1] = << <<>> >>
    /\ FirstUnfit(fields, Len(LineOf(2))) = 2
    /\ Len(records[2]) = 2
    /\ records[2][1] # <<>>
    /\ records[2][2] = <<>>

----------------------------------------------------------------------------
(* C3 *)

\* the record the line ln decodes to has n entries
ExpectedLen(ln) ==
    IF FirstUnfit(fields, Len(ln)) <= Len(fields)
    THEN FirstUnfit(fields, Len(ln)) ELSE Len(fields)

\* C3: a line shorter than the sum of the widths before some field gives a record
\* with fewer entries than the format has fields; no abort happens at a field
\* that does not fit; and without long format the result holds one record per
\* line of the file, in the order of the lines.
C3_ShortRecordAndRunGoesOn ==
    /\ \A j \in 1..Len(records) :
         (\E i \in 1..Len(fields) : Len(LineOf(j)) < WidthsBefore(fields, i))
             => Len(records[j]) < Len(fields)
    /\ pc = "parse_panic" => Fits(fields, field_idx, Len(line))
    /\ pc = "parse_err" => ~file.exists
    /\ (pc = "parse_ret" /\ ~long_format) =>
         /\ result.tag = "ok"
         /\ Len(result.val[2]) = Len(SplitLines(file.bytes))
         /\ \A j \in 1..Len(result.val[2]) :
              /\ Len(result.val[2][j]) = ExpectedLen(LineOf(j))
              /\ \A i \in 1..Len(result.val[2][j]) :
                   result.val[2][j][i] =
                       IF Fits(fields, i, Len(LineOf(j)))
                       THEN DecodedValue(i, LineOf(j)) ELSE <<>>

\* the result of a file whose first line ends before the second field begins and
\* whose second line holds every field
C3_Witness ==
    /\ pc = "parse_ret"
    /\ ~long_format
    /\ Len(fields) = 2
    /\ Len(result.val[2]) = 2
    /\ Len(LineOf(1)) < WidthsBefore(fields, 2)
    /\ Len(result.val[2][1]) = 1
    /\ Len(result.val[2][2]) = 2
    /\ result.val[2][2][2] # <<>>

----------------------------------------------------------------------------
(* C4 *)

\* C4: the entry of a table field that fits in the line is "<raw> - <description>"
\* when lookups are not suppressed and the table named by param1 exists and holds
\* the trimmed slice as a code, and the trimmed slice itself otherwise; a lookup
\* that finds nothing aborts nothing.
C4_TableLookup ==
    /\ pc \in {"parse_fields", "parse_push"} =>
         \A i \in 1..Len(record_parts) :
             LET f == fields[i]
                 raw == Trimmed(FieldSlice(fields, i, line))
                 found == /\ f.param1 \in DOMAIN Tables
                          /\ raw \in DOMAIN Tables[f.param1]
             IN  Fits(fields, i, Len(line)) /\ f.tipo = "table" =>
                     /\ (~dont_use_tables /\ found) =>
                            record_parts[i] = raw \o <<" ", "-", " ">> \o Tables[f.param1][raw]
                     /\ (~dont_use_tables /\ ~found) => record_parts[i] = raw
                     /\ dont_use_tables => record_parts[i] = raw
    /\ (pc = "parse_panic" /\ fields[field_idx].tipo = "table") =>
         ~(IsCharBoundary(line, start_pos)
           /\ IsCharBoundary(line, start_pos + fields[field_idx].len))

\* a code the table holds, and the same code looked up in a table that is absent
C4_Witness ==
    /\ pc = "parse_fields"
    /\ ~dont_use_tables
    /\ Len(record_parts) = 2
    /\ fields[1].tipo = "table" /\ fields[1].param1 = "T1"
    /\ record_parts[1] = <<"1", " ", "-", " ", "u", "n", "o">>
    /\ fields[2].tipo = "table" /\ fields[2].param1 = "TX"
    /\ record_parts[2] = <<"1">>

----------------------------------------------------------------------------
(* C5 - C8 *)

\* the length of the first record: the bytes in front of the first newline, one
\* character of the single-byte character set each
FirstRecordLength(bytes) ==
    IF \E k \in 1..Len(bytes) : bytes[k] = "\n"
    THEN (CHOOSE k \in 1..Len(bytes) :
            bytes[k] = "\n" /\ \A j \in 1..(k - 1) : bytes[j] # "\n") - 1
    ELSE Len(bytes)

\* the sum of the widths of a format's fields
FormatLength(name) == WidthsBefore(formats[name], Len(formats[name]) + 1)

\* the formats whose length is n
Matching(n) == {name \in DOMAIN formats : FormatLength(name) = n}

\* C5: when the length of the first line, its terminator left out, is the length
\* of exactly one format of the schema, deduce_format returns the name of that
\* format.
C5_UniqueLengthIsDeduced ==
    (pc = "deduce_ret" /\ file.exists) =>
        \A name \in DOMAIN formats :
            Matching(FirstRecordLength(file.bytes)) = {name} =>
                deduced = [tag |-> "ok", name |-> name, len |-> FormatLength(name)]

\* C6: two runs of deduce_format on the same file and the same schema return the
\* same outcome.
C6_SameOutcomeEveryRun ==
    (pc = "deduce_ret" /\ Len(runs) = 1) => deduced = runs[1]

\* C7: when no format of the schema has the measured length deduce_format
\* returns an error that carries the measured length, and a name it returns is
\* the name of a format of the measured length.
C7_NoMatchIsError ==
    (pc = "deduce_ret" /\ file.exists) =>
        /\ data_len = get_first_line_length(file.bytes)
        /\ Matching(data_len) = {} =>
               deduced = [tag |-> "err", name |-> "", len |-> data_len]
        /\ deduced.tag = "ok" => deduced.name \in Matching(data_len)
        /\ deduced.tag \in {"ok", "err"}

\* a schema of three formats, none of the measured length
C7_Witness ==
    /\ pc = "deduce_ret"
    /\ file.exists
    /\ Cardinality(DOMAIN formats) = 3
    /\ data_len > 0
    /\ Matching(data_len) = {}
    /\ deduced.tag = "err"
    /\ deduced.len = data_len

\* C8: the measured length is the number of characters of the first record, only
\* its line terminator left out.
C8_MeasuredIsRecordLength ==
    (pc = "deduce_scan" /\ file.exists) => data_len = FirstRecordLength(file.bytes)

----------------------------------------------------------------------------
(* C9, C10 *)

AllDigits(s) == s # <<>> /\ \A i \in 1..Len(s) : s[i] \in Digits

\* the number a digit string writes
RECURSIVE NumVal(_)
NumVal(s) ==
    IF s = <<>> THEN 0 ELSE 10 * NumVal(SubSeq(s, 1, Len(s) - 1)) + DigitVal(s[Len(s)])

RECURSIVE Pow10(_)
Pow10(d) == IF d = 0 THEN 1 ELSE 10 * Pow10(d - 1)

\* n in decimal, without leading zeros
RECURSIVE Numeral(_)
Numeral(n) ==
    IF n < 10 THEN <<DigitChar(n)>> ELSE Append(Numeral(n \div 10), DigitChar(n % 10))

\* the last d decimal digits of n
LastDigits(n, d) == [i \in 1..d |-> DigitChar((n \div Pow10(d - i)) % 10)]

\* the digit string s read as a number with d implied decimals, a comma in front
\* of the decimals
ImpliedDecimal(s, d) ==
    Numeral(NumVal(s) \div Pow10(d)) \o <<",">> \o LastDigits(NumVal(s), d)

C10_GroupedAmount ==
    (pc = "fmt_ret" /\ field_type = "amount" /\ format_numeric /\ decimal_places = 2) =>
        /\ raw_value = <<"1", "2", "3", "4", "5", "6", "7", ",", "8", "9">>
               => ret = Returned(<<"1", ".", "2", "3", "4", ".", "5", "6", "7", ",", "8", "9">>)
        /\ raw_value = <<"-", "1", "2", "3", "4", ",", "5">>
               => ret = Returned(<<"-", "1", ".", "2", "3", "4", ",", "5", "0">>)

----------------------------------------------------------------------------
(* C11 - C14, C18 *)

Blank(s) == \A i \in 1..Len(s) : s[i] \in Whitespace

\* C11: for an empty or all-whitespace value format_field_value returns "0,00"
\* when decimal_places > 0 and "0" when it is 0, whatever the kind and the
\* grouping flag, and nothing of the kind's parsing has run by then.
C11_BlankShortCircuit ==
    Blank(raw_value) =>
        /\ pc \in {"fmt_entry", "fmt_ret"}
        /\ number_string_for_decimal = <<>>
        /\ number = NoDecimal
        /\ pc = "fmt_ret" =>
               ret = Returned(IF decimal_places > 0
                              THEN <<"0", ",", "0", "0">> ELSE <<"0">>)

\* an all-whitespace amount whose decimal_places no Decimal can hold
C11_Witness ==
    /\ pc = "fmt_ret"
    /\ raw_value = <<" ", " ">>
    /\ field_type = "amount"
    /\ format_numeric
    /\ decimal_places > MAX_SCALE
    /\ ret = Returned(<<"0", ",", "0", "0">>)

\* a decimal text: an optional sign, then digits with at most one point among
\* them and at least one digit
WellFormedDecimal(s) ==
    LET body == IF s # <<>> /\ s[1] \in {"-", "+"} THEN SubSeq(s, 2, Len(s)) ELSE s
    IN  /\ \A i \in 1..Len(body) : body[i] \in Digits \cup {"."}
        /\ \E i \in 1..Len(body) : body[i] \in Digits
        /\ Cardinality({i \in 1..Len(body) : body[i] = "."}) <= 1

\* C12: when the text built from a zamount, amount or numeric value is no
\* decimal, the next step returns the raw value as it was given, untrimmed, and
\* nothing else happens.
C12_UnparsableReturnsRaw ==
    [][(pc = "fmt_parse" /\ ~WellFormedDecimal(number_string_for_decimal))
          => (pc' = "fmt_ret" /\ ret' = Returned(raw_value))]_vars

\* a value with a blank in front that is no number
C12_Witness ==
    /\ pc = "fmt_ret"
    /\ field_type = "amount"
    /\ raw_value = <<" ", "1", "-">>
    /\ number_string_for_decimal # <<>>
    /\ ~WellFormedDecimal(number_string_for_decimal)
    /\ ret = Returned(<<" ", "1", "-">>)

\* C13: format_field_value never panics.
C13_NeverPanics == pc # "fmt_panic"

\* C14: an amount "1234" with decimal_places 0 is returned as "1234,00" and an
\* amount "12,5" with decimal_places 2 as "12,50": the scale is fixed and the
\* value kept.
C14_ScaleKeepsValue ==
    (pc = "fmt_ret" /\ field_type = "amount" /\ ~format_numeric) =>
        /\ (raw_value = <<"1", "2", "3", "4">> /\ decimal_places = 0)
               => ret = Returned(<<"1", "2", "3", "4", ",", "0", "0">>)
        /\ (raw_value = <<"1", "2", ",", "5">> /\ decimal_places = 2)
               => ret = Returned(<<"1", "2", ",", "5", "0">>)

\* C18: for a value that parses, the result with grouping, its points removed,
\* is the result without grouping.
C18_GroupingOnlyAddsPoints ==
    (pc = "fmt_ret" /\ format_numeric /\ number.ok) =>
        format_field_value(raw_value, field_type, FALSE, decimal_places)
            = Returned(SelectSeq(ret.val, LAMBDA c : c # "."))

----------------------------------------------------------------------------
(* C15, C19, C17 *)

\* the number of entries of the records before record i
RECURSIVE EntriesBefore(_)
EntriesBefore(i) ==
    IF i <= 1 THEN 0 ELSE EntriesBefore(i - 1) + Len(records[i - 1])

\* C15: with long_format the result is the header ("#", "Columna", "Valor") and
\* one row of 3 entries for every entry of every record, M*N rows when the M
\* records have N entries each: the rows of record i follow those of the records
\* before it, in column order, and hold the number i counted from 1, the name of
\* the column and the record's value there.
C15_LongFormatShape ==
    (pc = "parse_ret" /\ long_format) =>
        LET rows == result.val[2]
        IN  /\ result.tag = "ok"
            /\ result.val[1] = << <<"#">>, <<"C", "o", "l", "u", "m", "n", "a">>,
                                          <<"V", "a", "l", "o", "r">> >>
            /\ Len(rows) = EntriesBefore(Len(records) + 1)
            /\ (\A i \in 1..Len(records) : Len(records[i]) = Len(fields))
                   => Len(rows) = Len(records) * Len(fields)
            /\ \A i \in 1..Len(records) : \A col \in 1..Len(records[i]) :
                   rows[EntriesBefore(i) + col]
                       = <<Numeral(i), fields[col].nombre, records[i][col]>>

\* two records of two columns give four rows
C15_Witness ==
    /\ pc = "parse_ret"
    /\ long_format
    /\ Len(fields) = 2
    /\ Len(records) = 2
    /\ \A i \in 1..2 : Len(records[i]) = 2
    /\ Len(result.val[2]) = 4
    /\ result.val[2][3] = << <<"2">>, fields[1].nombre, records[2][1] >>
    /\ records[2][1] # records[1][1]

\* C19: a record never has more entries than the format has fields, and has at
\* least one when the format has a field; so the label of every row of the long
\* format is the name of the field at the row's position within its record.
C19_EntriesWithinFields ==
    /\ Len(record_parts) <= Len(fields)
    /\ \A j \in 1..Len(records) :
         /\ Len(records[j]) <= Len(fields)
         /\ Len(fields) >= 1 => Len(records[j]) >= 1
    /\ (pc = "parse_ret" /\ long_format) =>
         \A i \in 1..Len(records) :
            LET mine == SelectSeq(result.val[2], LAMBDA r : r[1] = Numeral(i))
            IN  /\ Len(mine) = Len(records[i])
                /\ Len(mine) <= Len(fields)
                /\ \A col \in 1..Len(mine) :
                      /\ col <= Len(fields)
                      /\ mine[col][2] = fields[col].nombre

\* a long result whose records are cut at the second and at the first field
C19_Witness ==
    /\ pc = "parse_ret"
    /\ long_format
    /\ Len(fields) = 2
    /\ Len(records) = 2
    /\ Len(records[1]) = 2
    /\ records[1][1] # <<>>
    /\ Len(records[2]) = 1
    /\ Len(result.val[2]) = 3
    /\ result.val[2][2][2] = fields[2].nombre
    /\ result.val[2][3][2] = fields[1].nombre

\* the bytes of the line the record under construction is built from
RawLine == SplitLines(file.bytes)[Len(records) + 1]

\* C17: the entry of a plain field is the decoded and trimmed text of the raw
\* bytes [c, c+width) of the line, a field counts as cut exactly when c+width
\* exceeds the number of raw bytes, and no slice panics.
C17_SlicesCountRawBytes ==
    pc \in {"parse_fields", "parse_push", "parse_panic"} =>
        /\ \A i \in 1..Len(record_parts) :
             IF Fits(fields, i, Len(RawLine))
             THEN PlainKind(fields[i]) =>
                      record_parts[i] = Trimmed(Decode(FieldSlice(fields, i, RawLine)))
             ELSE /\ record_parts[i] = <<>>
                  /\ i = Len(record_parts)
                  /\ pc = "parse_push"
        /\ pc = "parse_push" => ~Fits(fields, Len(record_parts), Len(RawLine))
        /\ pc = "parse_panic" =>
             /\ IsCharBoundary(line, start_pos)
             /\ IsCharBoundary(line, start_pos + fields[field_idx].len)

----------------------------------------------------------------------------
(* C16 *)

\* the orderings of n positions
Orderings(n) ==
    {p \in [1..n -> 1..n] : \A i \in 1..n : \A j \in 1..n : i # j => p[i] # p[j]}

\* C16: the length of every format of the schema is the sum of the widths of
\* its fields, 0 for a format without fields, and the same for the fields in
\* any other order; a deduced format's length is that sum.
C16_LengthIsSumOfWidths ==
    /\ \A name \in DOMAIN formats :
         LET fs == formats[name]
         IN  /\ calculate_format_length(fs) = WidthsBefore(fs, Len(fs) + 1)
             /\ fs = <<>> => calculate_format_length(fs) = 0
             /\ \A p \in Orderings(Len(fs)) :
                  calculate_format_length([i \in 1..Len(fs) |-> fs[p[i]]])
                      = calculate_format_length(fs)
    /\ (pc = "deduce_ret" /\ deduced.tag = "ok") =>
         deduced.len = WidthsBefore(formats[deduced.name], Len(formats[deduced.name]) + 1)

\* a format of two fields of different widths is matched by a line of 3 units
C16_Witness ==
    /\ pc = "deduce_ret"
    /\ deduced.tag = "ok"
    /\ Len(formats[deduced.name]) = 2
    /\ formats[deduced.name][1].len = 2
    /\ formats[deduced.name][2].len = 1
    /\ deduced.len = 3
    /\ \E name \in DOMAIN formats : formats[name] = <<>>

----------------------------------------------------------------------------
(* C20 *)

\* C20: when the format was deduced from the file, its fields are the ones the
\* file is decoded with, the first line is at least as long as the format, no
\* field of the first line is found cut, and the first record has one entry for
\* every field.
C20_FirstRecordIsWhole ==
    (deduced.tag = "ok" /\ pc \notin {"deduce_entry", "deduce_scan", "deduce_ret"}) =>
        /\ fields = formats[deduced.name]
        /\ SplitLines(file.bytes) # <<>> =>
               Len(LineOf(1)) >= WidthsBefore(fields, Len(fields) + 1)
        /\ Len(records) = 0 => pc # "parse_push"
        /\ Len(records) >= 1 => Len(records[1]) = Len(fields)

\* the first line gives a whole record, the second, shorter, a cut one
C20_Witness ==
    /\ pc = "parse_ret"
    /\ deduced.tag = "ok"
    /\ Len(fields) = 1
    /\ Len(records) = 2
    /\ records[1][1] # <<>>
    /\ Len(LineOf(2)) < fields[1].len
    /\ records[2] = << <<>> >>

====
